---- MODULE Spec2Model ----
(***************************************************************************)
(* The request pipeline of EmberClient (src/EmberClient/EmberClient.js):   *)
(* the pending queue, the active request, the timeout timer, the shared    *)
(* _callback slot, the promises handed to the callers, the local tree and  *)
(* the transport events.  Every handler of the client runs to completion   *)
(* (JavaScript is single threaded), so every handler is one action.        *)
(***************************************************************************)
EXTENDS Integers, Sequences, FiniteSets, TLC

\* ------------------------------------------------------------------ bounds
MaxRequests == 3   \* requests handed to addRequest in one run of a connected session
MaxCalls == 2      \* requests handed to addRequest in one run with transport events
MaxInbound == 2    \* inbound messages decoded in one run
MaxConnects == 1   \* connect() calls in one run
MaxFaults == 1     \* transport 'error' events in one run
MaxEncodeFailures == 1   \* requests whose frame cannot be built or encoded

\* ------------------------------------------------------------------ strings
\* A dotted path is a string; a string is a sequence of characters and a
\* character is a digit 1..9 or DOT.
DOT == 0

NoPath == <<>>

\* String.prototype.startsWith
startsWith(s, p) ==
    /\ Len(p) <= Len(s)
    /\ \A i \in 1..Len(p) : s[i] = p[i]

\* String.prototype.lastIndexOf('.') with 0-based indexes, -1 on a miss
lastIndexOfDot(s) ==
    LET at == {i \in 1..Len(s) : s[i] = DOT}
    IN  IF at = {} THEN -1
        ELSE (CHOOSE i \in at : \A j \in at : j <= i) - 1

\* isDirectSubPathOf without the test on the last dot: every descendant passes
isDirectSubPathOf_NoDotCheck(path, parent) ==
    path = parent \/ startsWith(path, parent)

\* isDirectSubPathOf(path, parent)
isDirectSubPathOf(path, parent) ==
    path = parent \/ (lastIndexOfDot(path) = Len(parent) /\ startsWith(path, parent))

\* String.prototype.split('.') followed by pop() and join('.'): the path of
\* the parent; the empty string when the path has one segment.
parentPathOf(path) ==
    LET k == lastIndexOfDot(path)
    IN  IF k = -1 THEN NoPath ELSE SubSeq(path, 1, k)

\* path.split('.').length
segmentCount(path) == Cardinality({i \in 1..Len(path) : path[i] = DOT}) + 1

\* ------------------------------------------------------------------ trees
\* A tree (the local tree, or the tree of a decoded root) is an arena: a
\* sequence of nodes, each naming its parent by index; 0 is the Root.
\* val = 0 is an absent value; q marks a Qualified* node, which carries its
\* own path.
NoVal == 0

TreeNode(num, kind, val, par, q, path) ==
    [num |-> num, kind |-> kind, val |-> val, par |-> par, q |-> q, path |-> path]

RECURSIVE indexesFrom(_, _)
indexesFrom(i, n) == IF i > n THEN <<>> ELSE <<i>> \o indexesFrom(i + 1, n)

\* getChildren(): the children of node p in insertion order (none: null)
getChildren(t, p) ==
    LET isChild(i) == t[i].par = p
    IN  SelectSeq(indexesFrom(1, Len(t)), isChild)

\* getPath()
RECURSIVE getPath(_, _)
getPath(t, i) ==
    IF i = 0 THEN NoPath
    ELSE IF t[i].q THEN t[i].path
    ELSE IF t[i].par = 0 THEN <<t[i].num>>
    ELSE getPath(t, t[i].par) \o <<DOT, t[i].num>>

\* getElementByNumber(n): the first child of p with that number, 0 for null
getElementByNumber(t, p, n) ==
    LET hits == {i \in 1..Len(t) : t[i].par = p /\ t[i].num = n}
    IN  IF hits = {} THEN 0 ELSE CHOOSE i \in hits : \A j \in hits : i <= j

RECURSIVE isWithin(_, _, _)
isWithin(t, i, p) ==
    IF i = p THEN TRUE
    ELSE IF i = 0 THEN FALSE
    ELSE isWithin(t, t[i].par, p)

\* getElementByPath(path) on receiver p: the node at that path at or below
\* the receiver, 0 for null
getElementByPath(t, p, path) ==
    LET hits == {i \in 1..Len(t) : getPath(t, i) = path /\ isWithin(t, i, p)}
    IN  IF hits = {} THEN 0 ELSE CHOOSE i \in hits : \A j \in hits : i <= j

\* update(fragment): fields present in the fragment overwrite
update(t, i, frag) ==
    IF frag.val = NoVal THEN t ELSE [t EXCEPT ![i].val = frag.val]

\* the nodes of the subtree of message node j, in arena order
subtreeOf(mt, j) ==
    LET inside(i) == isWithin(mt, i, j)
    IN  SelectSeq(indexesFrom(1, Len(mt)), inside)

positionIn(seq, x) == CHOOSE k \in 1..Len(seq) : seq[k] = x

\* addChild(node): the node of the decoded root becomes a child of p, and it
\* brings its own children with it
addChild(t, p, mt, j) ==
    LET sub == subtreeOf(mt, j)
        copy(k) ==
            IF sub[k] = j THEN [mt[j] EXCEPT !.par = p]
            ELSE [mt[sub[k]] EXCEPT !.par = Len(t) + positionIn(sub, mt[sub[k]].par)]
    IN  t \o [k \in 1..Len(sub) |-> copy(k)]

\* ------------------------------------------------------------------ decoded messages
\* What the transport hands to the 'emberTree' handler: a decoded Root with
\* its elements, or an InvocationResult.
RootMsg(t) == [type |-> "Root", inv |-> 0, t |-> t]

InvocationResultMsg(id) == [type |-> "InvocationResult", inv |-> id, t |-> <<>>]

Msgs == <<
    \* 1: Node 1 with Parameter 1.1 (value 1), positional, and QualifiedMatrix 2
    RootMsg(<<TreeNode(1, "Node", NoVal, 0, FALSE, NoPath),
              TreeNode(1, "Parameter", 1, 1, FALSE, NoPath),
              TreeNode(2, "Matrix", NoVal, 0, TRUE, <<2>>)>>),
    \* 2: QualifiedParameter 1.1 (value 2)
    RootMsg(<<TreeNode(1, "Parameter", 2, 0, TRUE, <<1, DOT, 1>>)>>),
    \* 3: QualifiedMatrix 2
    RootMsg(<<TreeNode(2, "Matrix", NoVal, 0, TRUE, <<2>>)>>),
    \* 4, 5: the results of invocations 1 and 2
    InvocationResultMsg(1),
    InvocationResultMsg(2),
    \* 6: QualifiedParameter 1.1.1 (value 3)
    RootMsg(<<TreeNode(1, "Parameter", 3, 0, TRUE, <<1, DOT, 1, DOT, 1>>)>>)
>>

MsgIds == 1..Len(Msgs)

isInvocationResult(m) == Msgs[m].type = "InvocationResult"

\* ------------------------------------------------------------------ merging a root
\* The merge threads the local tree t, the events emitted so far ev, the
\* top-level elements of the decoded root that were re-parented below a
\* node that is not the Root (rep), and whether an exception is in flight.
\* A 'value-change' event, with the value the node of the local tree at that
\* path has while the listeners run.
ValueChange(path, val) == [ev |-> "value-change", path |-> path, val |-> val]

Event(name) == [ev |-> name, path |-> NoPath, val |-> NoVal]

\* addChild as the handlers call it: DuplicateNumber is thrown when the
\* receiver already has a child with that number
addChildTo(m, p, mt, j) ==
    IF getElementByNumber(m.t, p, mt[j].num) # 0
    THEN [m EXCEPT !.exc = TRUE]
    ELSE [m EXCEPT !.t = addChild(m.t, p, mt, j),
                   !.rep = IF mt[j].par = 0 /\ p # 0 THEN @ \cup {j} ELSE @]

RECURSIVE _handleNode(_, _, _, _)
RECURSIVE handleNodes(_, _, _, _)
\* _handleNode without the lookup by number: every fragment is added
_handleNode_AlwaysAdd(m, parent, mt, node) ==
    IF m.exc THEN m
    ELSE
    LET m1 == addChildTo(m, parent, mt, node)
        children == getChildren(mt, node)
    IN  IF children # <<>>
        THEN handleNodes(m1, Len(m.t) + 1, mt, children)
        ELSE [m1 EXCEPT !.ev = Append(@, ValueChange(getPath(mt, node), mt[node].val))]

_handleNode(m, parent, mt, node) ==
    IF m.exc THEN m
    ELSE
    LET found == getElementByNumber(m.t, parent, mt[node].num)
        m1 == IF found = 0
              THEN addChildTo(m, parent, mt, node)
              ELSE [m EXCEPT !.t = update(m.t, found, mt[node])]
        n == IF found = 0 THEN Len(m.t) + 1 ELSE found
        children == getChildren(mt, node)
    IN  IF children # <<>>
        THEN handleNodes(m1, n, mt, children)
        ELSE [m1 EXCEPT !.ev = Append(@, ValueChange(getPath(mt, node), m1.t[n].val))]

handleNodes(m, n, mt, children) ==
    IF children = <<>> THEN m
    ELSE handleNodes(_handleNode(m, n, mt, Head(children)), n, mt, Tail(children))

RECURSIVE _handleQualifiedNode(_, _, _, _)
RECURSIVE handleElements(_, _, _, _)
_handleQualifiedNode(m, parent, mt, node) ==
    IF m.exc THEN m
    ELSE
    LET path == mt[node].path
        found == getElementByPath(m.t, parent, path)
        children == getChildren(mt, node)
    IN  IF found # 0
        THEN handleElements(
                 [m EXCEPT !.ev = Append(@, ValueChange(path, m.t[found].val)),
                           !.t = update(m.t, found, mt[node])],
                 found, mt, children)
        ELSE IF segmentCount(path) = 1
        THEN handleElements(addChildTo(m, 0, mt, node), Len(m.t) + 1, mt, children)
        ELSE LET p == getElementByPath(m.t, 0, parentPathOf(path))
             IN  IF p = 0 THEN m
                 ELSE handleElements(addChildTo(m, p, mt, node), Len(m.t) + 1, mt, children)

\* the loop over the children of a qualified node, and over the elements of
\* a root
handleElements(m, element, mt, children) ==
    IF m.exc \/ children = <<>> THEN m
    ELSE LET c == Head(children)
             m1 == IF mt[c].q THEN _handleQualifiedNode(m, element, mt, c)
                   ELSE _handleNode(m, element, mt, c)
         IN  handleElements(m1, element, mt, Tail(children))

\* _handleRoot up to the call of the callback: root.update(root) changes no
\* field of the Root
mergeRoot(t, mt) ==
    handleElements([t |-> t, ev |-> <<>>, rep |-> {}, exc |-> FALSE], 0, mt, getChildren(mt, 0))

\* ------------------------------------------------------------------ requests
\* The node a request is made on: its path and its kind.
Target(path, kind) == [path |-> path, kind |-> kind]

RootTarget == Target(NoPath, "Root")
NodeTarget == Target(<<1>>, "Node")
ParameterTarget == Target(<<1, DOT, 1>>, "Parameter")
MatrixTarget == Target(<<2>>, "Matrix")
FunctionTarget == Target(<<3>>, "Function")
\* a null or undefined node argument
NullTarget == Target(NoPath, "null")

\* The arguments of a matrixOPeration: targetID and sources, which may be
\* something else than an array.
Args(targetID, isArray, sources) ==
    [targetID |-> targetID, isArray |-> isArray, sources |-> sources]
NoArgs == Args(0, TRUE, <<>>)

\* The matrix at 2 declares one target and one source, numbered from 0.
targetCount == 1
sourceCount == 1

\* matrixNode.validateConnection(targetID, sources) throws on a target or a
\* source outside the declared counts; TRUE: it returns.
validateConnection(matrixNode, targetID, sources) ==
    /\ matrixNode.kind = "Matrix"
    /\ targetID < targetCount
    /\ \A i \in 1..Len(sources) : sources[i] < sourceCount

\* The facade calls, with the nodes they are made on and the arguments of a
\* matrixOPeration; a getDirectory on the Root is made with the client's
\* root itself.
Calls ==
    ({"getDirectory"} \X {RootTarget, NodeTarget, ParameterTarget, MatrixTarget, NullTarget}
                     \X {NoArgs})
    \cup ({"expand"} \X {NodeTarget, NullTarget} \X {NoArgs})
    \cup ({"setValue"} \X {ParameterTarget, NodeTarget} \X {NoArgs})
    \cup ({"subscribe", "unsubscribe"} \X {ParameterTarget} \X {NoArgs})
    \cup ({"matrixOPeration"} \X {MatrixTarget}
            \X {NoArgs, Args(0, TRUE, <<0>>), Args(1, TRUE, <<0>>), Args(0, TRUE, <<1>>),
                Args(0, FALSE, <<>>)})
    \cup ({"invokeFunction"} \X {FunctionTarget} \X {NoArgs})

\* enc: whether building and encoding the request's frame succeeds; when it
\* does not, sendBERNode throws.  inv: the invocation id of an invokeFunction.
\* args: the arguments the call was made with.
Request(kind, node, enc, inv) ==
    [kind |-> kind, node |-> node, enc |-> enc, inv |-> inv, args |-> NoArgs]

\* ------------------------------------------------------------------ errors and promises
Undefined == [k |-> "undefined", of |-> 0]
Null == [k |-> "null", of |-> 0]
EmberTimeoutError(id) == [k |-> "timeout", of |-> id]
Error(k) == [k |-> k, of |-> 0]

\* if (error)
Truthy(e) == e.k \notin {"undefined", "null"}

Pending == [st |-> "pending", m |-> 0, w |-> "", e |-> Undefined, seen |-> <<>>]

\* A promise settles once: resolve and reject of a settled promise do nothing.
\* m is the decoded message the promise resolved with (0: undefined), w
\* what of it ("message": the whole decoded message, "matrix": its matrix)
\* and seen the local tree at the moment of the resolve.
resolve(s, id, m, w) ==
    IF s.waiter[id].st = "pending"
    THEN [s EXCEPT !.waiter[id] =
             [st |-> "resolved", m |-> m, w |-> w, e |-> Undefined, seen |-> s.tree]]
    ELSE s

Rejected(e) == [st |-> "rejected", m |-> 0, w |-> "", e |-> e, seen |-> <<>>]

reject(s, id, e) ==
    IF s.waiter[id].st = "pending"
    THEN [s EXCEPT !.waiter[id] = Rejected(e)]
    ELSE s

\* ------------------------------------------------------------------ the _callback slot
NoCallback == [k |-> "undefined", id |-> 0]

Callback(k, id) == [k |-> k, id |-> id]

emit(s, name) == [s EXCEPT !.emitted = Append(@, Event(name))]

\* ------------------------------------------------------------------ the pipeline
\* _clearTimeout that leaves the timer running
_clearTimeout_Keep(s) == s

_clearTimeout(s) == [s EXCEPT !.tmr = "none"]

\* sendBERNode: the frame of request id is written; act is the request that
\* is active at that moment
sendBERNode(s, id) ==
    IF s.reqs[id].enc
    THEN [s EXCEPT !.written = Append(@, [id |-> id, act |-> s.act])]
    ELSE [s EXCEPT !.exc = TRUE]

RECURSIVE _finishRequest(_)
RECURSIVE _makeRequest(_)
RECURSIVE func(_, _, _)
RECURSIVE callCallback(_, _, _)
RECURSIVE getDirectoryCallback(_, _, _, _)

\* the callback connect() installs
connectCallback(s, n, e) ==
    LET s1 == [s EXCEPT !.cb = NoCallback]
    IN  IF s1.connP[n] # "pending" THEN s1
        ELSE IF e.k = "undefined" THEN [s1 EXCEPT !.connP[n] = "resolved"]
        ELSE [s1 EXCEPT !.connP[n] = "rejected"]

\* the callback getDirectory installs
getDirectoryCallback(s, id, error, node) ==
    LET qnode == s.reqs[id].node
        requestedPath == qnode.path
        accept == resolve(_finishRequest(_clearTimeout(s)), id, node, "message")
    IN  IF node = 0 THEN s
        ELSE IF Truthy(error) THEN reject(_finishRequest(_clearTimeout(s)), id, error)
        ELSE IF qnode.kind = "Root"
        THEN IF getChildren(s.tree, 0) = <<>>
             THEN callCallback(s, Error("invalid"), 0)
             ELSE IF isInvocationResult(node) THEN [s EXCEPT !.exc = TRUE]
             ELSE LET nodeElements == getChildren(Msgs[node].t, 0)
                  IN  IF nodeElements # <<>>
                         /\ \A i \in 1..Len(nodeElements) : nodeElements[i] \notin s.rep
                      THEN accept
                      ELSE callCallback(s, Error("invalid"), 0)
        ELSE IF isInvocationResult(node) THEN [s EXCEPT !.exc = TRUE]
        ELSE IF getElementByPath(Msgs[node].t, 0, requestedPath) # 0 THEN accept
        ELSE LET mt == Msgs[node].t
                 nodeElements == getChildren(mt, 0)
             IN  IF nodeElements # <<>>
                    /\ \/ /\ qnode.kind = "Matrix"
                          /\ Len(nodeElements) = 1
                          /\ getPath(mt, nodeElements[1]) = requestedPath
                       \/ /\ qnode.kind # "Matrix"
                          /\ \A i \in 1..Len(nodeElements) :
                                isDirectSubPathOf(getPath(mt, nodeElements[i]), requestedPath)
                 THEN accept
                 ELSE s

\* the callback of matrixOPeration without the test on the matrix
matrixCallback_AcceptAny(s, id, error, node) ==
    IF node = 0 THEN s
    ELSE IF Truthy(error) THEN reject(_finishRequest(_clearTimeout(s)), id, error)
    ELSE resolve(_finishRequest(_clearTimeout(s)), id, node, "matrix")

\* the callback matrixOPeration installs
matrixCallback(s, id, error, node) ==
    LET requestedPath == s.reqs[id].node.path
    IN  IF node = 0 THEN s
        ELSE IF Truthy(error) THEN reject(_finishRequest(_clearTimeout(s)), id, error)
        ELSE IF isInvocationResult(node) THEN [s EXCEPT !.exc = TRUE]
        ELSE LET mt == Msgs[node].t
                 matrix == getElementByPath(mt, 0, requestedPath)
             IN  IF matrix # 0 /\ mt[matrix].kind = "Matrix" /\ getPath(mt, matrix) = requestedPath
                 THEN resolve(_finishRequest(_clearTimeout(s)), id, node, "matrix")
                 ELSE s

\* the end of the callback of setValue: reject(error) or resolve(node)
settle(s, id, error, node) ==
    IF Truthy(error) THEN reject(s, id, error) ELSE resolve(s, id, node, "message")

\* the callback setValue installs
setValueCallback(s, id, error, node) ==
    settle(_finishRequest(_clearTimeout(s)), id, error, node)

\* the callback invokeFunction installs
invokeCallback(s, id, error, result) ==
    LET s1 == _clearTimeout(s)
        s2 == IF Truthy(error) THEN reject(s1, id, error) ELSE resolve(s1, id, result, "message")
    IN  _finishRequest(s2)

\* this._callback(error, node)
callCallback(s, error, node) ==
    CASE s.cb.k = "connect" -> connectCallback(s, s.cb.id, error)
      [] s.cb.k = "getDirectory" -> getDirectoryCallback(s, s.cb.id, error, node)
      [] s.cb.k = "matrixOPeration" -> matrixCallback(s, s.cb.id, error, node)
      [] s.cb.k = "setValue" -> setValueCallback(s, s.cb.id, error, node)
      [] s.cb.k = "invokeFunction" -> invokeCallback(s, s.cb.id, error, node)
      [] OTHER -> s

\* the func of a getDirectory, matrixOPeration or setValue request
funcWithCallback(s, id, error) ==
    IF Truthy(error) THEN reject(_finishRequest(s), id, error)
    ELSE sendBERNode([s EXCEPT !.cb = Callback(s.reqs[id].kind, id)], id)

\* the func of an invokeFunction request
funcInvoke(s, id, error) ==
    IF Truthy(error) THEN _finishRequest(reject(s, id, error))
    ELSE sendBERNode([s EXCEPT !.cb = Callback("invokeFunction", id)], id)

\* the func of a subscribe or unsubscribe request
funcSubscribe(s, id, error) ==
    IF Truthy(error) THEN reject(s, id, error)
    ELSE LET s1 == sendBERNode(s, id)
         IN  IF s1.exc THEN s1 ELSE resolve(_finishRequest(s1), id, 0, "")

\* this._activeRequest.func(error)
func(s, id, error) ==
    CASE s.reqs[id].kind \in {"getDirectory", "matrixOPeration", "setValue"} ->
            funcWithCallback(s, id, error)
      [] s.reqs[id].kind = "invokeFunction" -> funcInvoke(s, id, error)
      [] OTHER -> funcSubscribe(s, id, error)

\* _makeRequest without the test on _activeRequest
_makeRequest_NoGuard(s) ==
    IF Len(s.pend) > 0
    THEN func([s EXCEPT !.act = Head(s.pend), !.pend = Tail(s.pend),
                        !.rid = @ + 1, !.tmr = "armed"],
              Head(s.pend), Undefined)
    ELSE s

_makeRequest(s) ==
    IF s.act = 0 /\ Len(s.pend) > 0
    THEN func([s EXCEPT !.act = Head(s.pend), !.pend = Tail(s.pend),
                        !.rid = @ + 1, !.tmr = "armed"],
              Head(s.pend), Undefined)
    ELSE s

\* the catch clause of _finishRequest, given the client as _makeRequest
\* left it
catchOfFinishRequest(s) ==
    LET caught == [s EXCEPT !.exc = FALSE]
    IN  IF s.exc
        THEN emit(IF caught.cb.k # "undefined" THEN callCallback(caught, Error("send"), 0)
                  ELSE caught,
                  "error")
        ELSE s

\* _finishRequest without the call of _makeRequest
_finishRequest_NoNext(s) == [_clearTimeout(s) EXCEPT !.act = 0]

_finishRequest(s) ==
    catchOfFinishRequest(_makeRequest([_clearTimeout(s) EXCEPT !.act = 0]))

\* ------------------------------------------------------------------ state
VARIABLES
    pend,      \* _pendingRequests: the ids of the queued requests
    act,       \* _activeRequest: the id of the active request, 0 for null
    tmr,       \* _timeout: "none" (null), "armed", or "fired" (the handle of a timer that ran)
    cb,        \* _callback
    rid,       \* _requestID
    tree,      \* root: the local tree
    conn,      \* the transport: "closed", "connecting" or "open"
    reqs,      \* every request handed to addRequest, by id
    waiter,    \* the promise of each request
    connP,     \* the promise of each connect() call
    written,   \* the frames written to the transport in the last step, in order
    emitted,   \* the events the client emitted in the last step
    last,      \* the last step: the handler that ran and the message it was given
    nIn,       \* inbound messages decoded so far
    nFault,    \* transport 'error' events so far
    nInv,      \* invocation ids handed out so far
    nEnc,      \* requests so far whose frame could not be built or encoded
    walk,      \* the tree walk of getNodeByPathnum: its closure variables and its promise
    codec      \* a StreamDescription on its way through the BER writer and reader

vars == <<pend, act, tmr, cb, rid, tree, conn, reqs, waiter, connP, written,
          emitted, last, nIn, nFault, nInv, nEnc, walk, codec>>

\* A request that has left the pipeline, whose promise is settled and whose
\* callback is no longer in the _callback slot, plays no further part: what
\* is remembered of it is that it was made.
Forgotten == [kind |-> "done", node |-> RootTarget, enc |-> TRUE, inv |-> 0, args |-> NoArgs]

Done == [st |-> "done", m |-> 0, w |-> "", e |-> Undefined, seen |-> <<>>]

isLive(s, id) ==
    \/ s.waiter[id].st = "pending"
    \/ s.act = id
    \/ \E i \in 1..Len(s.pend) : s.pend[i] = id
    \/ (s.cb.k # "connect" /\ s.cb.id = id)

forget(s) ==
    [s EXCEPT !.reqs = [id \in 1..Len(s.reqs) |-> IF isLive(s, id) THEN s.reqs[id] ELSE Forgotten],
              !.waiter = [id \in 1..Len(s.reqs) |-> IF isLive(s, id) THEN s.waiter[id] ELSE Done]]

\* The client as a record, for the handlers to work on; exc is an exception
\* in flight and rep the re-parented elements of the root being handled.
Client ==
    forget(
    [pend |-> pend, act |-> act, tmr |-> tmr, cb |-> cb, rid |-> rid, tree |-> tree,
     reqs |-> reqs, waiter |-> waiter, connP |-> connP, written |-> <<>>,
     emitted |-> <<>>, exc |-> FALSE, rep |-> {}, walk |-> walk, codec |-> codec])

\* the step last taken: the handler, the message it handled and the facade
\* call it made
NoCall == <<"none", NullTarget, NoArgs>>
Step(op, m) == [op |-> op, m |-> m, call |-> NoCall]

\* The tree walk.  st: "none" (no walk was started), "running", "waiting"
\* (for the promise of getDirectory dir), "resolved" (with node) or
\* "rejected" (with e); path: the numbers asked for; pos, lastMissingPos and
\* currentNode: the variables of the closure; enc: whether the frames of
\* the walk's getDirectory requests can be built and encoded; asked: the
\* value of pos at each getDirectory the walk has made.
NoWalk ==
    [st |-> "none", path |-> <<>>, pos |-> 0, lastMissingPos |-> -1, currentNode |-> 0,
     dir |-> 0, node |-> 0, e |-> Undefined, enc |-> TRUE, asked |-> <<>>]

\* no StreamDescription is being written or read
NoCodec == [phase |-> "none", sd |-> [format |-> 0, offset |-> 0], bytes |-> <<>>,
            decoded |-> [format |-> 0, offset |-> 0]]

\* constructor
Init ==
    /\ pend = <<>>
    /\ act = 0
    /\ tmr = "none"
    /\ cb = NoCallback
    /\ rid = 0
    /\ tree = <<>>
    /\ conn = "closed"
    /\ reqs = <<>>
    /\ waiter = <<>>
    /\ connP = <<>>
    /\ written = <<>>
    /\ emitted = <<>>
    /\ last = Step("constructor", 0)
    /\ nIn = 0
    /\ nFault = 0
    /\ nInv = 0
    /\ nEnc = 0
    /\ walk = NoWalk
    /\ codec = NoCodec

\* ------------------------------------------------------------------ actions

\* a promise executor that throws rejects the promise being built
rejectOnThrow(s, id) ==
    IF s.exc THEN reject([s EXCEPT !.exc = FALSE], id, Error("send")) ELSE s

\* addRequest with unshift in the place of push
addRequest_Unshift(s, req) ==
    rejectOnThrow(_makeRequest([s EXCEPT !.reqs = Append(@, req),
                                         !.waiter = Append(@, Pending),
                                         !.pend = <<Len(s.reqs) + 1>> \o @]),
                  Len(s.reqs) + 1)

\* addRequest, as the promise executors of getDirectory, setValue,
\* matrixOPeration, invokeFunction, subscribe and unsubscribe call it
addRequest(s, req) ==
    rejectOnThrow(_makeRequest([s EXCEPT !.reqs = Append(@, req),
                                         !.waiter = Append(@, Pending),
                                         !.pend = Append(@, Len(s.reqs) + 1)]),
                  Len(s.reqs) + 1)

\* new Promise(...) whose executor rejects before it reaches addRequest, and
\* Promise.reject(...)
rejectedPromise(s, req, e) ==
    [s EXCEPT !.reqs = Append(@, req), !.waiter = Append(@, Rejected(e))]

\* root.clear()
clear(s) == [s EXCEPT !.tree = <<>>]

\* getDirectory with the null check left out
getDirectory_NoClear(s, qnode, enc) ==
    addRequest(s, Request("getDirectory", IF qnode = NullTarget THEN RootTarget ELSE qnode, enc, 0))

getDirectory(s, qnode, enc) ==
    addRequest(IF qnode = NullTarget THEN clear(s) ELSE s,
               Request("getDirectory", IF qnode = NullTarget THEN RootTarget ELSE qnode, enc, 0))

\* expand, up to the promise it returns; the continuation on a node with
\* children makes further calls of expand, one for each child
expand(s, node, enc) ==
    IF node = NullTarget
    THEN rejectedPromise(s, Request("expand", node, enc, 0), Error("Invalid null node"))
    ELSE getDirectory(s, node, enc)

\* setValue with the instanceof check left out
setValue_NoCheck(s, node, enc) ==
    addRequest(s, Request("setValue", node, enc, 0))

setValue(s, node, enc) ==
    IF node.kind # "Parameter"
    THEN rejectedPromise(s, Request("setValue", node, enc, 0), Error("not a property"))
    ELSE addRequest(s, Request("setValue", node, enc, 0))

matrixOPeration(s, matrixNode, args, enc) ==
    IF ~args.isArray
    THEN rejectedPromise(s, [Request("matrixOPeration", matrixNode, enc, 0) EXCEPT !.args = args],
                         Error("Sources should be an array"))
    ELSE IF ~validateConnection(matrixNode, args.targetID, args.sources)
    THEN rejectedPromise(s, [Request("matrixOPeration", matrixNode, enc, 0) EXCEPT !.args = args],
                         Error("InvalidConnection"))
    ELSE addRequest(s, [Request("matrixOPeration", matrixNode, enc, 0) EXCEPT !.args = args])

\* the node of the local tree a getDirectory of the walk is made on
TargetOf(t, i) == IF i = 0 THEN RootTarget ELSE Target(getPath(t, i), t[i].kind)

RECURSIVE getNext(_)
RECURSIVE microtasks(_)

\* getNext without lastMissingPos = pos
getNext_NoMark(s) ==
    LET w == s.walk
        node == getElementByNumber(s.tree, w.currentNode, w.path[w.pos + 1])
    IN  IF node # 0
        THEN IF w.pos + 1 >= Len(w.path)
             THEN [s EXCEPT !.walk.st = "resolved", !.walk.pos = @ + 1, !.walk.node = node]
             ELSE getNext([s EXCEPT !.walk.pos = @ + 1, !.walk.currentNode = node])
        ELSE IF w.lastMissingPos = w.pos
        THEN [s EXCEPT !.walk.st = "rejected", !.walk.e = Error("Failed path discovery")]
        ELSE microtasks(getDirectory([s EXCEPT !.walk.st = "waiting",
                                               !.walk.dir = Len(s.reqs) + 1,
                                               !.walk.asked = Append(@, w.pos)],
                                     TargetOf(s.tree, w.currentNode), w.enc))

\* the function getNext passes to then: the scan of the children of
\* currentNode for the number at pos, and what follows it
getNext(s) ==
    LET w == s.walk
        node == getElementByNumber(s.tree, w.currentNode, w.path[w.pos + 1])
    IN  IF node # 0
        THEN IF w.pos + 1 >= Len(w.path)
             THEN [s EXCEPT !.walk.st = "resolved", !.walk.pos = @ + 1, !.walk.node = node]
             ELSE getNext([s EXCEPT !.walk.pos = @ + 1, !.walk.currentNode = node])
        ELSE IF w.lastMissingPos = w.pos
        THEN [s EXCEPT !.walk.st = "rejected", !.walk.e = Error("Failed path discovery")]
        ELSE microtasks(getDirectory([s EXCEPT !.walk.lastMissingPos = w.pos,
                                               !.walk.st = "waiting",
                                               !.walk.dir = Len(s.reqs) + 1,
                                               !.walk.asked = Append(@, w.pos)],
                                     TargetOf(s.tree, w.currentNode), w.enc))

\* The promise jobs that run when a handler has returned:
\* getDirectory(currentNode).then(() => getNext()) goes on once the promise
\* of the getDirectory is settled.
microtasks(s) ==
    IF s.walk.st # "waiting" THEN s
    ELSE IF s.waiter[s.walk.dir].st = "resolved" THEN getNext([s EXCEPT !.walk.st = "running"])
    ELSE IF s.waiter[s.walk.dir].st = "rejected"
    THEN [s EXCEPT !.walk.st = "rejected", !.walk.e = s.waiter[s.walk.dir].e]
    ELSE s

\* getNodeByPathnum(path), with the first run of getNext
getNodeByPathnum(s, path, enc) ==
    getNext([s EXCEPT !.walk = [NoWalk EXCEPT !.st = "running", !.path = path, !.enc = enc]])

\* the state a handler or a call leaves behind, its promise jobs included
Assigned(s) ==
    /\ pend' = s.pend
    /\ act' = s.act
    /\ tmr' = s.tmr
    /\ cb' = s.cb
    /\ rid' = s.rid
    /\ tree' = s.tree
    /\ reqs' = s.reqs
    /\ waiter' = s.waiter
    /\ connP' = s.connP
    /\ written' = s.written
    /\ emitted' = s.emitted
    /\ walk' = s.walk
    /\ codec' = s.codec

Becomes(s) == Assigned(microtasks(s))

\* a call of the facade
facade(s, call, enc, inv) ==
    CASE call[1] = "getDirectory" -> getDirectory(s, call[2], enc)
      [] call[1] = "expand" -> expand(s, call[2], enc)
      [] call[1] = "setValue" -> setValue(s, call[2], enc)
      [] call[1] = "matrixOPeration" -> matrixOPeration(s, call[2], call[3], enc)
      [] OTHER -> addRequest(s, Request(call[1], call[2], enc, inv))

AddRequest(limit) ==
    /\ Len(reqs) < limit
    /\ \E call \in Calls, enc \in BOOLEAN :
          /\ enc \/ nEnc < MaxEncodeFailures
          /\ nEnc' = IF enc THEN nEnc ELSE nEnc + 1
          /\ Becomes(facade(Client, call, enc, IF call[1] = "invokeFunction" THEN nInv + 1 ELSE 0))
          /\ last' = [Step("addRequest", 0) EXCEPT !.call = call]
          /\ nInv' = IF call[1] = "invokeFunction" THEN nInv + 1 ELSE nInv
    /\ UNCHANGED <<conn, nIn, nFault>>

\* the timer callback: _timeoutRequest
_timeoutRequest(s) == func(s, s.act, EmberTimeoutError(s.act))

Timeout ==
    /\ tmr = "armed"
    /\ act # 0
    /\ Becomes(_timeoutRequest([Client EXCEPT !.tmr = "fired"]))
    /\ last' = Step("timeout", 0)
    /\ UNCHANGED <<conn, nIn, nFault, nInv, nEnc>>

\* the client with the decoded root merged into its tree
withMerged(s, merged) ==
    [s EXCEPT !.tree = merged.t, !.emitted = @ \o merged.ev,
              !.rep = merged.rep, !.exc = merged.exc]

\* if (this._callback) this._callback(error, root), unless an exception is
\* in flight
callbackIfSet(s, error, m) ==
    IF s.exc \/ s.cb.k = "undefined" THEN s ELSE callCallback(s, error, m)

\* _handleRoot with the callback called before the merge
_handleRoot_CallbackFirst(s, m) ==
    withMerged(callbackIfSet(s, Null, m), mergeRoot(s.tree, Msgs[m].t))

\* _handleRoot
_handleRoot(s, m) == callbackIfSet(withMerged(s, mergeRoot(s.tree, Msgs[m].t)), Null, m)

\* the try block of the 'emberTree' handler
tryOfEmberTree(s, m) ==
    callbackIfSet(IF isInvocationResult(m) THEN emit(s, "invocationResult") ELSE _handleRoot(s, m),
                  Undefined, m)

\* the catch clause of the 'emberTree' handler, given the client as the try
\* block left it
catchOfEmberTree(s) ==
    LET caught == [s EXCEPT !.exc = FALSE]
    IN  IF s.exc
        THEN IF caught.cb.k = "undefined" THEN caught ELSE callCallback(caught, Error("thrown"), 0)
        ELSE s

\* the 'emberTree' handler
onEmberTree(s, m) == catchOfEmberTree(tryOfEmberTree(s, m))

OnEmberTree ==
    /\ conn = "open"
    /\ nIn < MaxInbound
    /\ \E m \in MsgIds :
          /\ Becomes(onEmberTree(Client, m))
          /\ last' = Step("emberTree", m)
    /\ nIn' = nIn + 1
    /\ UNCHANGED <<conn, nFault, nInv, nEnc>>

\* connect(): the callback slot is taken over and the transport connects
connect(s) ==
    LET s1 == [s EXCEPT !.cb = Callback("connect", Len(s.connP) + 1),
                        !.connP = Append(@, "pending")]
    IN  emit(IF conn = "open" THEN emit(s1, "disconnected") ELSE s1, "connecting")

Connect ==
    /\ Len(connP) < MaxConnects
    /\ Becomes(connect(Client))
    /\ conn' = "connecting"
    /\ last' = Step("connect", 0)
    /\ UNCHANGED <<nIn, nFault, nInv, nEnc>>

\* the 'connected' handler
onConnected(s) ==
    LET s1 == emit(s, "connected")
    IN  IF s1.cb.k # "undefined" THEN callCallback(s1, Undefined, 0) ELSE s1

OnConnected ==
    /\ conn = "connecting"
    /\ Becomes(onConnected(Client))
    /\ conn' = "open"
    /\ last' = Step("connected", 0)
    /\ UNCHANGED <<nIn, nFault, nInv, nEnc>>

\* the 'disconnected' handler
onDisconnected(s) == emit(s, "disconnected")

\* the transport closes by itself
OnDisconnected ==
    /\ conn = "open"
    /\ Becomes(onDisconnected(Client))
    /\ conn' = "closed"
    /\ last' = Step("disconnected", 0)
    /\ UNCHANGED <<nIn, nFault, nInv, nEnc>>

\* disconnect(): the transport closes and reports it
Disconnect ==
    /\ conn = "open"
    /\ Becomes(onDisconnected(Client))
    /\ conn' = "closed"
    /\ last' = Step("disconnect", 0)
    /\ UNCHANGED <<nIn, nFault, nInv, nEnc>>

\* the 'error' handler
onError(s) ==
    emit(IF s.cb.k # "undefined" THEN callCallback(s, Error("transport"), 0) ELSE s, "error")

OnError ==
    /\ conn \in {"connecting", "open"}
    /\ nFault < MaxFaults
    /\ Becomes(onError(Client))
    /\ nFault' = nFault + 1
    /\ last' = Step("error", 0)
    /\ UNCHANGED <<conn, nIn, nInv, nEnc>>

Next ==
    \/ AddRequest(MaxCalls)
    \/ Timeout
    \/ OnEmberTree
    \/ Connect
    \/ OnConnected
    \/ OnDisconnected
    \/ Disconnect
    \/ OnError

Spec == Init /\ [][Next]_vars

\* A connected session: connect() was called on the new client and the
\* transport reported 'connected'; from then on requests are made, roots
\* arrive and timers run.
InitSession ==
    /\ pend = <<>>
    /\ act = 0
    /\ tmr = "none"
    /\ cb = NoCallback
    /\ rid = 0
    /\ tree = <<>>
    /\ conn = "open"
    /\ reqs = <<>>
    /\ waiter = <<>>
    /\ connP = <<"resolved">>
    /\ written = <<>>
    /\ emitted = <<Event("connected")>>
    /\ last = Step("connected", 0)
    /\ nIn = 0
    /\ nFault = 0
    /\ nInv = 0
    /\ nEnc = 0
    /\ walk = NoWalk
    /\ codec = NoCodec

NextSession ==
    \/ AddRequest(MaxRequests)
    \/ Timeout
    \/ OnEmberTree

Session == InitSession /\ [][NextSession]_vars

\* The paths walked, as numbers: known after the roots of the catalogue (1,
\* 1.1, 1.1.1, 2) or never advertised (3, 1.2).
WalkPaths == {<<1>>, <<1, 1>>, <<1, 1, 1>>, <<2>>, <<3>>, <<1, 2>>}

GetNodeByPathnum ==
    /\ walk.st = "none"
    /\ \E path \in WalkPaths, enc \in BOOLEAN :
          /\ enc \/ nEnc < MaxEncodeFailures
          /\ nEnc' = IF enc THEN nEnc ELSE nEnc + 1
          /\ Becomes(getNodeByPathnum(Client, path, enc))
    /\ last' = Step("getNodeByPathnum", 0)
    /\ UNCHANGED <<conn, nIn, nFault, nInv>>

\* A connected session in which one tree walk is made, while roots arrive
\* and timers run.
NextWalk ==
    \/ GetNodeByPathnum
    \/ Timeout
    \/ OnEmberTree

Walk == InitSession /\ [][NextWalk]_vars

\* ------------------------------------------------------------------ vocabulary of the properties
Ids == 1..Len(reqs)

isSettled(w) == w.st # "pending"

\* the paths of all elements of decoded message m, and of the elements
\* directly below its root
elementPaths(m) == {getPath(Msgs[m].t, i) : i \in 1..Len(Msgs[m].t)}

topLevelPaths(m) == {getPath(Msgs[m].t, i) : i \in {j \in 1..Len(Msgs[m].t) : Msgs[m].t[j].par = 0}}

isChildPath(q, p) == \E n \in 1..9 : q = p \o <<DOT, n>>

\* the frame of request id went out
frameWritten(id) == reqs[id].enc

\* up to and in the step, the frame of every request could be built and
\* encoded: sendBERNode never threw
everyFrameEncoded == nEnc' = 0

C2_TimeoutIsolation == ~(tmr = "fired" /\ act # 0 /\ Len(pend) > 0)

\* ------------------------------------------------------------------ C3
\* C3: when the timer of the active request runs, the promise of that
\* request, if it is still pending, is rejected with the timeout error made
\* for that request; no other promise is rejected with a timeout error in
\* that step, and the promises of the requests that are still queued after
\* the step are unchanged and pending.
C3_TimeoutRejectsActiveOnly ==
    [][last'.op = "timeout" =>
         /\ waiter[act].st = "pending" =>
               waiter'[act] = Rejected(EmberTimeoutError(act))
         /\ \A r \in Ids \ {act} : waiter'[r].e.k = "timeout" => waiter'[r] = waiter[r]
         /\ \A i \in 1..Len(pend') : waiter'[pend'[i]] = Pending /\ waiter[pend'[i]] = Pending
      ]_vars

\* ------------------------------------------------------------------ C4
\* whether decoded message m is a response to request r
isResponseTo(m, r) ==
    CASE reqs[r].kind = "invokeFunction" -> isInvocationResult(m) /\ Msgs[m].inv = reqs[r].inv
      [] reqs[r].kind \in {"getDirectory", "setValue", "matrixOPeration"} ->
            /\ ~isInvocationResult(m)
            /\ \/ reqs[r].node.kind = "Root"
               \/ \E q \in elementPaths(m) : q = reqs[r].node.path \/ isChildPath(q, reqs[r].node.path)
      [] OTHER -> FALSE

\* C4: a response that arrives after its request timed out is merged into
\* the local tree and settles the promise of no other request (a request
\* the message is a response to as well is left aside).  Stated for the
\* runs in which every frame could be encoded.
C4_LateResponseIsUnsolicited ==
    [][\A m \in MsgIds, a \in Ids :
          (/\ everyFrameEncoded
           /\ last'.op = "emberTree" /\ last'.m = m
           /\ waiter[a].st = "rejected" /\ waiter[a].e.k = "timeout"
           /\ isResponseTo(m, a))
          => /\ isInvocationResult(m) \/ tree' = mergeRoot(tree, Msgs[m].t).t
             /\ \A b \in Ids \ {a} :
                   (waiter[b].st = "pending" /\ ~isResponseTo(m, b)) => waiter'[b].st = "pending"
      ]_vars

\* ------------------------------------------------------------------ C5
\* C5: a disconnect (disconnect() or the transport's 'disconnected' event)
\* rejects every pending promise, of the active request and of the queued
\* ones, with ConnectionClosed, and empties the queue, so that no queued
\* request is sent afterwards.  Stated for the runs in which every frame
\* could be encoded.
C5_DisconnectFailsAll ==
    [][(everyFrameEncoded /\ last'.op \in {"disconnect", "disconnected"}) =>
         /\ \A r \in Ids : waiter[r].st = "pending" =>
               (waiter'[r].st = "rejected" /\ waiter'[r].e = Error("ConnectionClosed"))
         /\ pend' = <<>>
      ]_vars

\* ------------------------------------------------------------------ C6
\* C6: a transport 'error' event rejects every pending promise, of the
\* active request and of the queued ones, with that error, and the client
\* emits 'error'.  Stated for the runs in which every frame could be
\* encoded.
C6_ErrorFailsAll ==
    [][(everyFrameEncoded /\ last'.op = "error") =>
         /\ \A r \in Ids : waiter[r].st = "pending" =>
               (waiter'[r].st = "rejected" /\ waiter'[r].e = Error("transport"))
         /\ \E i \in 1..Len(emitted') : emitted'[i] = Event("error")
      ]_vars

\* ------------------------------------------------------------------ C7
\* the promise of request r is resolved by the step
resolvedNow(r) ==
    /\ waiter'[r].st = "resolved"
    /\ r > Len(waiter) \/ waiter[r].st = "pending"

\* decoded message m is a root with an element at that path that has a value
containsValueAt(m, path) ==
    /\ ~isInvocationResult(m)
    /\ \E i \in 1..Len(Msgs[m].t) : getPath(Msgs[m].t, i) = path /\ Msgs[m].t[i].val # NoVal

\* C7: the promise of a setValue request is resolved only by the step that
\* receives a root with an element at the parameter's path that has a value;
\* a decoded message that has none leaves the request active and its promise
\* as it was.  Stated for the runs in which every frame could be encoded.
C7_SetValueMatchesPath ==
    [][\A r \in 1..Len(reqs') : (everyFrameEncoded /\ reqs'[r].kind = "setValue") =>
         /\ resolvedNow(r) =>
               /\ last'.op = "emberTree"
               /\ containsValueAt(last'.m, reqs'[r].node.path)
         /\ (r = act /\ last'.op = "emberTree" /\ ~containsValueAt(last'.m, reqs'[r].node.path)) =>
               (act' = r /\ waiter'[r] = waiter[r])
      ]_vars

\* ------------------------------------------------------------------ C8
\* C8: the promise of an invokeFunction request is resolved only by the step
\* that receives the InvocationResult carrying the invocation id of that
\* request, and it resolves with that result.  Stated for the runs in which
\* every frame could be encoded.
C8_InvocationMatchesId ==
    [][\A r \in 1..Len(reqs') :
         (everyFrameEncoded /\ reqs'[r].kind = "invokeFunction" /\ resolvedNow(r)) =>
         /\ last'.op = "emberTree"
         /\ isInvocationResult(last'.m)
         /\ Msgs[last'.m].inv = reqs'[r].inv
         /\ waiter'[r].m = last'.m
      ]_vars

\* ------------------------------------------------------------------ C9
\* decoded message m is a root with an element at that path
containsElementAt(m, path) == ~isInvocationResult(m) /\ path \in elementPaths(m)

\* decoded message m is a root whose elements are direct children of the
\* node (not a matrix), or the one matrix at the node's own path (a matrix)
isDirectoryOf(m, node) ==
    /\ ~isInvocationResult(m)
    /\ topLevelPaths(m) # {}
    /\ IF node.kind = "Matrix"
       THEN LET top == getChildren(Msgs[m].t, 0)
            IN  Len(top) = 1 /\ getPath(Msgs[m].t, top[1]) = node.path
       ELSE \A q \in topLevelPaths(m) : isChildPath(q, node.path)

\* the getDirectory requests on a node that is not the Root
isGetDirectoryBelowRoot(req) == req.kind = "getDirectory" /\ req.node.kind # "Root"

\* C9 as stated: the promise of a getDirectory request on a node that is not
\* the Root is resolved only by the step that receives a root whose elements
\* are the direct children of the node, or the one matrix at the node's path;
\* any other root leaves the request active, its timer running and its
\* promise as it was.  Stated for the runs in which every frame could be
\* encoded.
C9_DirectoryOnly ==
    [][\A r \in 1..Len(reqs') : (everyFrameEncoded /\ isGetDirectoryBelowRoot(reqs'[r])) =>
         /\ resolvedNow(r) =>
               /\ last'.op = "emberTree"
               /\ isDirectoryOf(last'.m, reqs'[r].node)
         /\ (r = act /\ last'.op = "emberTree" /\ ~isDirectoryOf(last'.m, reqs'[r].node)) =>
               (act' = r /\ tmr' = tmr /\ waiter'[r] = waiter[r])
      ]_vars

\* C9 amended: the promise of a getDirectory request on a node that is not
\* the Root is resolved only by the step that receives a root that contains
\* an element at the node's own path, or whose elements are the direct
\* children of the node (the one matrix at the node's path, for a matrix),
\* and it resolves with that root; any other decoded message leaves the
\* request active, its timer running and its promise as it was.
C9_OwnPathOrDirectory ==
    [][\A r \in 1..Len(reqs') : isGetDirectoryBelowRoot(reqs'[r]) =>
         LET accepted(m) == containsElementAt(m, reqs'[r].node.path) \/ isDirectoryOf(m, reqs'[r].node)
         IN  /\ resolvedNow(r) =>
                   /\ last'.op = "emberTree"
                   /\ waiter'[r].m = last'.m
                   /\ accepted(last'.m)
             /\ (r = act /\ last'.op = "emberTree" /\ ~accepted(last'.m)) =>
                   (act' = r /\ tmr' = tmr /\ waiter'[r] = waiter[r])
      ]_vars

\* C9 witness: a getDirectory on Node 1 was resolved by the root that holds
\* Node 1 itself beside a matrix, and is no list of children of Node 1.
C9_Witness ==
    /\ last.op = "emberTree"
    /\ last.m = 1
    /\ \E r \in Ids :
          /\ reqs[r].kind = "getDirectory"
          /\ reqs[r].node = NodeTarget
          /\ waiter[r].st = "resolved"
          /\ waiter[r].m = 1
          /\ ~isDirectoryOf(1, reqs[r].node)

\* ------------------------------------------------------------------ C10
\* decoded message m is a root with a matrix at that path
containsMatrixAt(m, path) ==
    /\ ~isInvocationResult(m)
    /\ \E i \in 1..Len(Msgs[m].t) : getPath(Msgs[m].t, i) = path /\ Msgs[m].t[i].kind = "Matrix"

\* C10: the promise of a matrix operation is resolved only by the step that
\* receives a root with a matrix at the path of the requested matrix, and it
\* resolves with that matrix; any other decoded message leaves the request
\* active and its promise as it was.
C10_MatrixMatchesPath ==
    [][\A r \in 1..Len(reqs') : reqs'[r].kind = "matrixOPeration" =>
         /\ resolvedNow(r) =>
               /\ last'.op = "emberTree"
               /\ containsMatrixAt(last'.m, reqs'[r].node.path)
               /\ waiter'[r].m = last'.m
               /\ waiter'[r].w = "matrix"
         /\ (r = act /\ last'.op = "emberTree" /\ ~containsMatrixAt(last'.m, reqs'[r].node.path)) =>
               (act' = r /\ waiter'[r] = waiter[r])
      ]_vars

\* C10 witness: a matrix operation was resolved by a root that holds the
\* matrix beside other elements.
C10_Witness ==
    /\ last.op = "emberTree"
    /\ last.m = 1
    /\ \E r \in Ids :
          /\ reqs[r].kind = "matrixOPeration"
          /\ waiter[r].st = "resolved"
          /\ waiter[r].m = 1
          /\ waiter[r].w = "matrix"

\* ------------------------------------------------------------------ C11
\* the elements of decoded message m without children: its leaves
leavesOf(m) == {i \in 1..Len(Msgs[m].t) : getChildren(Msgs[m].t, i) = <<>>}

\* the events emitted in the step hold a 'value-change' for that path
valueChangeEmitted(path) ==
    \E k \in 1..Len(emitted') : emitted'[k].ev = "value-change" /\ emitted'[k].path = path

\* after the step the local tree holds fragment i of decoded message m: a
\* node at its path, with the fragment's value when the fragment has one
holdsFragment(m, i) ==
    LET n == getElementByPath(tree', 0, getPath(Msgs[m].t, i))
    IN  /\ n # 0
        /\ Msgs[m].t[i].val # NoVal => tree'[n].val = Msgs[m].t[i].val

\* C11: every decoded root is merged into the local tree, whatever the
\* pipeline is doing: after the step that receives it the local tree holds
\* every fragment of the root, and a 'value-change' was emitted for every
\* leaf of the root, qualified or positional, new or known.  Stated for the
\* runs in which every frame could be encoded.
C11_EveryRootMerged ==
    [][\A m \in MsgIds :
          (everyFrameEncoded /\ last'.op = "emberTree" /\ last'.m = m /\ ~isInvocationResult(m)) =>
             /\ \A i \in 1..Len(Msgs[m].t) : holdsFragment(m, i)
             /\ \A i \in leavesOf(m) : valueChangeEmitted(getPath(Msgs[m].t, i))
      ]_vars

\* ------------------------------------------------------------------ C12
\* the requests queued in that sequence of ids
queued(q) == {q[k] : k \in 1..Len(q)}

\* C12: frames go out in the order of the addRequest calls (the ids count
\* the calls).  In every step the frames written are frames of requests that
\* were queued or are new, they are written in the order of their ids, and
\* every request still queued after the step has a greater id than every
\* frame written: no queued request is overtaken.
C12_EnqueueOrder ==
    [][\A i \in 1..Len(written') :
          /\ written'[i].id \in queued(pend) \/ written'[i].id > Len(reqs)
          /\ \A j \in 1..Len(written') : j < i => written'[j].id < written'[i].id
          /\ \A b \in queued(pend') : written'[i].id < b
      ]_vars

\* C12 witness: the frame of the second request goes out, after the first
\* request completed, while a third request is queued.
C12_Witness ==
    /\ last.op \in {"timeout", "emberTree"}
    /\ written = <<[id |-> 2, act |-> 2]>>
    /\ pend = <<3>>

\* ------------------------------------------------------------------ C13
\* C13: when the step that receives a root resolves a promise, the local
\* tree at the moment of the resolve is the tree with that root merged: the
\* merge of all its elements is complete before any promise is resolved.
C13_MergeBeforeResolve ==
    [][\A r \in 1..Len(reqs') :
          (resolvedNow(r) /\ last'.op = "emberTree" /\ ~isInvocationResult(last'.m)) =>
             waiter'[r].seen = mergeRoot(tree, Msgs[last'.m].t).t
      ]_vars

\* C13 witness: the first root to arrive put nodes in the local tree and
\* resolved the active request, which saw them.
C13_Witness ==
    /\ last.op = "emberTree"
    /\ nIn = 1
    /\ tree # <<>>
    /\ \E r \in Ids : waiter[r].st = "resolved" /\ waiter[r].m = last.m /\ waiter[r].seen = tree

\* ------------------------------------------------------------------ C14
\* C14: a 'value-change' is emitted for a node only after the node of the
\* local tree was updated with the fragment: while the listeners of the
\* event run, the local node at the path of the event has the value of the
\* fragment of the root at that path, positional or qualified.  Stated for
\* the runs in which every frame could be encoded.
C14_UpdateBeforeValueChange ==
    [][\A m \in MsgIds :
          (everyFrameEncoded /\ last'.op = "emberTree" /\ last'.m = m /\ ~isInvocationResult(m)) =>
             \A k \in 1..Len(emitted'), i \in 1..Len(Msgs[m].t) :
                (/\ emitted'[k].ev = "value-change"
                 /\ emitted'[k].path = getPath(Msgs[m].t, i)
                 /\ Msgs[m].t[i].val # NoVal)
                => emitted'[k].val = Msgs[m].t[i].val
      ]_vars

\* ------------------------------------------------------------------ C15
\* request r leaves the queue in the step: it becomes the active request
startedNow(r) ==
    /\ r \in queued(pend) \/ r > Len(reqs)
    /\ r \notin queued(pend')

\* C15: a subscribe or unsubscribe waits for no response.  In the step in
\* which it becomes the active request its frame is written, its promise is
\* resolved, and it is the active request no longer: the timer is cleared
\* or runs for the next request, and nothing is left queued behind an idle
\* pipeline.
C15_SubscribeCompletesAtOnce ==
    [][\A r \in 1..Len(reqs') :
          (reqs'[r].kind \in {"subscribe", "unsubscribe"} /\ startedNow(r)) =>
             /\ \E i \in 1..Len(written') : written'[i].id = r
             /\ waiter'[r].st = "resolved"
             /\ act' # r
             /\ tmr' = (IF act' = 0 THEN "none" ELSE "armed")
             /\ act' = 0 => pend' = <<>>
      ]_vars

\* ------------------------------------------------------------------ C16
\* the call q is one the facade has to refuse: a setValue on something that
\* is not a parameter, a matrixOPeration whose sources are not an array or
\* whose target or sources lie outside the matrix's declared counts
isMisuse(q) ==
    \/ q.kind = "setValue" /\ q.node.kind # "Parameter"
    \/ /\ q.kind = "matrixOPeration"
       /\ \/ ~q.args.isArray
          \/ q.args.targetID >= targetCount
          \/ \E i \in 1..Len(q.args.sources) : q.args.sources[i] >= sourceCount

\* the call r is made in the step
calledNow(r) == Len(reqs) < r /\ r <= Len(reqs')

\* C16: a misuse of setValue or matrixOPeration rejects the promise of the
\* call and leaves the pending queue, the active request, the timer and the
\* callback slot as they were, and writes nothing to the transport.
C16_MisuseLeavesPipeline ==
    [][\A r \in 1..Len(reqs') :
          (calledNow(r) /\ isMisuse(reqs'[r])) =>
             /\ waiter'[r].st = "rejected"
             /\ pend' = pend
             /\ act' = act
             /\ tmr' = tmr
             /\ cb' = cb
             /\ written' = <<>>
      ]_vars

\* a matrixOPeration with a source out of range was refused while one
\* request was active and another queued
C16_Witness ==
    /\ last.op = "addRequest"
    /\ act # 0
    /\ pend # <<>>
    /\ \E r \in 1..Len(reqs) :
          /\ reqs[r].kind = "matrixOPeration"
          /\ reqs[r].args = Args(0, TRUE, <<1>>)
          /\ waiter[r].st = "rejected"
          /\ r # act
          /\ r \notin queued(pend)

\* ------------------------------------------------------------------ C17
\* the step is a facade call with a null node
nullCall(kinds) ==
    /\ last'.op = "addRequest"
    /\ last'.call[1] \in kinds
    /\ last'.call[2] = NullTarget

\* the call made in the step was refused: its promise is rejected, and the
\* pipeline, the transport and the local tree are as they were
refusedNow ==
    /\ waiter'[Len(reqs) + 1].st = "rejected"
    /\ pend' = pend
    /\ act' = act
    /\ tmr' = tmr
    /\ cb' = cb
    /\ written' = <<>>
    /\ tree' = tree

\* C17 as claimed: getDirectory(null) and expand(null) are refused.
C17_NullNodeRefused ==
    [][(everyFrameEncoded /\ nullCall({"getDirectory", "expand"})) => refusedNow]_vars

\* C17: expand(null) is refused: its promise is rejected and the pipeline,
\* the transport and the local tree are as they were.  getDirectory(null) is
\* not refused: it clears the local tree and adds a getDirectory request on
\* the root to the pipeline.
C17_NullNode ==
    [][/\ nullCall({"expand"}) => refusedNow
       /\ nullCall({"getDirectory"}) =>
             /\ tree' = <<>>
             /\ reqs'[Len(reqs) + 1].kind = "getDirectory"
             /\ reqs'[Len(reqs) + 1].node = RootTarget
             /\ act' = Len(reqs) + 1 \/ Len(reqs) + 1 \in queued(pend')
             /\ act = 0 => act' = Len(reqs) + 1
      ]_vars

\* getDirectory(null) was called after a root had been merged; its request
\* is the active one and its frame was written
C17_Witness ==
    /\ last.call = <<"getDirectory", NullTarget, NoArgs>>
    /\ nIn > 0
    /\ tree = <<>>
    /\ act = Len(reqs)
    /\ written = <<[id |-> act, act |-> act]>>

\* ------------------------------------------------------------------ C19
\* no two children of one parent have the same number
siblingsDiffer(t) ==
    \A i, j \in 1..Len(t) : (i # j /\ t[i].par = t[j].par) => t[i].num # t[j].num

\* C19: no two children of the same parent in the local tree have the same
\* number, whatever roots have come in.  A fragment of an inbound root whose
\* path is already in the local tree is not added (no DuplicateNumber is
\* raised): the node at that path stays the one it was, takes the value of
\* the fragment, and is the only node at that path.
C19_NoDuplicateSiblings ==
    [][/\ siblingsDiffer(tree')
       /\ \A m \in MsgIds :
             (last'.op = "emberTree" /\ last'.m = m /\ ~isInvocationResult(m)) =>
                /\ ~mergeRoot(tree, Msgs[m].t).exc
                /\ \A i \in 1..Len(Msgs[m].t) :
                      getElementByPath(tree, 0, getPath(Msgs[m].t, i)) # 0 =>
                         /\ getElementByPath(tree', 0, getPath(Msgs[m].t, i))
                               = getElementByPath(tree, 0, getPath(Msgs[m].t, i))
                         /\ Cardinality({k \in 1..Len(tree') :
                                           getPath(tree', k) = getPath(Msgs[m].t, i)}) = 1
                         /\ Msgs[m].t[i].val # NoVal =>
                               tree'[getElementByPath(tree, 0, getPath(Msgs[m].t, i))].val
                                  = Msgs[m].t[i].val
      ]_vars

\* the root with Node 1, Parameter 1.1 and Matrix 2 was delivered onto a
\* local tree that already held all three
C19_Witness ==
    /\ last.op = "emberTree"
    /\ last.m = 1
    /\ nIn = 2
    /\ Len(tree) = 3
    /\ tree[2].val = 1

\* ------------------------------------------------------------------ C20
\* the positional traversal: from node p, by the numbers of the path, one
\* getElementByNumber for each segment; 0 when a segment is missing
RECURSIVE traverse(_, _, _)
traverse(t, p, path) ==
    IF path = NoPath THEN p
    ELSE LET n == getElementByNumber(t, p, Head(path))
             rest == IF Len(path) = 1 THEN NoPath ELSE SubSeq(path, 3, Len(path))
         IN  IF n = 0 THEN 0 ELSE traverse(t, n, rest)

\* C20: after an inbound root with a qualified fragment at path p was
\* handled, the local tree has a node at p, and the positional traversal by
\* the numbers of p reaches that node, also when the parent of p was not in
\* the local tree before.
C20_PathCanonical ==
    [][\A m \in MsgIds :
          (everyFrameEncoded /\ last'.op = "emberTree" /\ last'.m = m /\ ~isInvocationResult(m)) =>
             \A i \in 1..Len(Msgs[m].t) :
                Msgs[m].t[i].q =>
                   /\ getElementByPath(tree', 0, Msgs[m].t[i].path) # 0
                   /\ traverse(tree', 0, Msgs[m].t[i].path)
                         = getElementByPath(tree', 0, Msgs[m].t[i].path)
      ]_vars

\* ------------------------------------------------------------------ C18
\* the dotted path of a sequence of numbers
RECURSIVE dotted(_)
dotted(numbers) ==
    IF numbers = <<>> THEN NoPath
    ELSE IF Len(numbers) = 1 THEN <<numbers[1]>>
    ELSE <<numbers[1], DOT>> \o dotted(Tail(numbers))

\* the first k segments of the walked path are in the local tree t
isKnown(t, path, k) == k = 0 \/ traverse(t, 0, dotted(SubSeq(path, 1, k))) # 0

\* the walk makes a getDirectory in the step
askedNow == Len(walk'.asked) > Len(walk.asked)

\* the promise of the getDirectory the walk waits for is resolved in the step
answeredNow == walk.st = "waiting" /\ waiter'[walk.dir].st = "resolved"

\* getNext runs in the step
ranNow == (walk.st = "none" /\ walk'.st # "none") \/ answeredNow

pathErrorNow ==
    /\ walk.st # "rejected"
    /\ walk'.st = "rejected"
    /\ walk'.e = Error("Failed path discovery")

\* C18: the tree walk of getNodeByPathnum.  A getDirectory of the walk is
\* made on the deepest node of the path that is in the local tree, and only
\* when the segment after it is not; no two are made for the same segment.
\* The walk resolves with the node at the full path as soon as getNext finds
\* every segment in the local tree.  It fails with the path discovery error
\* exactly when the getDirectory it waits for resolves and the segment it
\* was made for is still not in the local tree.  It waits only for a
\* getDirectory that is still pending, so it ends when its getDirectory
\* requests complete.
C18_TreeWalk ==
    [][/\ askedNow =>
             /\ Len(walk'.asked) = Len(walk.asked) + 1
             /\ reqs'[walk'.dir].kind = "getDirectory"
             /\ reqs'[walk'.dir].node.path
                   = dotted(SubSeq(walk'.path, 1, walk'.asked[Len(walk'.asked)]))
             /\ isKnown(tree', walk'.path, walk'.asked[Len(walk'.asked)])
             /\ ~isKnown(tree', walk'.path, walk'.asked[Len(walk'.asked)] + 1)
       /\ \A i, j \in 1..Len(walk'.asked) : i # j => walk'.asked[i] # walk'.asked[j]
       /\ \A i \in 1..Len(walk'.asked) : walk'.asked[i] < Len(walk'.path)
       /\ walk'.st = "resolved" =>
             /\ walk'.node # 0
             /\ walk'.node = traverse(tree', 0, dotted(walk'.path))
       /\ (ranNow /\ isKnown(tree', walk'.path, Len(walk'.path))) => walk'.st = "resolved"
       /\ pathErrorNow <=> (answeredNow /\ ~isKnown(tree', walk.path, walk.pos + 1))
       /\ walk'.st # "running"
       /\ walk'.st = "waiting" => waiter'[walk'.dir].st = "pending"
      ]_vars

\* the walk to 1.1.1 from an empty local tree resolved after a getDirectory
\* on the root and one on 1.1
C18_Witness ==
    /\ walk.st = "resolved"
    /\ walk.path = <<1, 1, 1>>
    /\ walk.asked = <<0, 2>>
    /\ walk.node = traverse(tree, 0, dotted(walk.path))

\* ------------------------------------------------------------------ the BER codec
\* Bytes are numbers 0..255.  Tags: class and constructed bit in the high
\* bits, number in the low bits (X.690).
UNIVERSAL_INTEGER == 2
UNIVERSAL_ENUMERATED == 10
APPLICATION(n) == 96 + n
CONTEXT(n) == 160 + n
StreamDescriptionTag == APPLICATION(12)

\* StreamFormat: Int8, Int16BE, Int16LE, Int32BE (4), Int32LE, Int64BE,
\* Int64LE, Float32BE, Float32LE, Float64BE, Float64LE
StreamFormat == 1..11

\* The offsets tried: OffsetWindow integers on either side of 0 and of each
\* point where the two's-complement encoding grows by a byte.
OffsetWindow == 2
Edges == {0, 42, 128, -128, 32768, -32768, 8388608, -8388608}
Offsets == {e + d : e \in Edges, d \in -OffsetWindow..OffsetWindow}

\* the bytes of an integer with the sign byte left out when the top bit of
\* the first byte is set
RECURSIVE writeInt_Unsigned(_)
writeInt_Unsigned(n) ==
    IF n >= 0 /\ n <= 255 THEN <<n>>
    ELSE IF n >= -128 /\ n < 0 THEN <<n + 256>>
    ELSE writeInt_Unsigned(n \div 256) \o <<n % 256>>

\* Writer: the content bytes of an integer, two's complement, big-endian,
\* as few bytes as hold it
RECURSIVE writeInt(_)
writeInt(n) ==
    IF n >= -128 /\ n <= 127 THEN <<n % 256>>
    ELSE writeInt(n \div 256) \o <<n % 256>>

\* Reader: the integer of content bytes
RECURSIVE readIntFrom(_, _)
readIntFrom(acc, bytes) ==
    IF bytes = <<>> THEN acc
    ELSE readIntFrom(acc * 256 + Head(bytes), Tail(bytes))

readInt(bytes) ==
    readIntFrom(IF Head(bytes) >= 128 THEN Head(bytes) - 256 ELSE Head(bytes), Tail(bytes))

\* Writer: startSequence(tag) ... endSequence(), and a tagged primitive:
\* tag, definite short length, content
tlv(tag, content) == <<tag, Len(content)>> \o content

\* Reader: the element at the head of the bytes; ok is FALSE on a truncated
\* input or a length that is not in the short form
NoElement == [ok |-> FALSE, tag |-> 0, content |-> <<>>, rest |-> <<>>]

readElement(bytes) ==
    IF Len(bytes) < 2 \/ bytes[2] >= 128 \/ Len(bytes) < 2 + bytes[2] THEN NoElement
    ELSE [ok |-> TRUE, tag |-> bytes[1], content |-> SubSeq(bytes, 3, 2 + bytes[2]),
          rest |-> SubSeq(bytes, 3 + bytes[2], Len(bytes))]

\* encodeStreamDescription: the application-tagged sequence of format, an
\* enumerated under context tag 0, and offset, an integer under context tag 1
encodeStreamDescription(sd) ==
    tlv(StreamDescriptionTag,
        tlv(CONTEXT(0), tlv(UNIVERSAL_ENUMERATED, writeInt(sd.format)))
        \o tlv(CONTEXT(1), tlv(UNIVERSAL_INTEGER, writeInt(sd.offset))))

\* what the decoder gives on bytes it cannot read
DecodeError == [format |-> -1, offset |-> -1, error |-> TRUE]

\* the fields of a StreamDescription read one after the other, by their
\* context tags
RECURSIVE readFields(_, _)
readFields(sd, bytes) ==
    IF bytes = <<>> THEN sd
    ELSE LET field == readElement(bytes)
             value == readElement(field.content)
         IN  IF ~field.ok \/ ~value.ok \/ value.content = <<>> \/ value.rest # <<>>
             THEN DecodeError
             ELSE IF field.tag = CONTEXT(0) /\ value.tag = UNIVERSAL_ENUMERATED
             THEN readFields([sd EXCEPT !.format = readInt(value.content)], field.rest)
             ELSE IF field.tag = CONTEXT(1) /\ value.tag = UNIVERSAL_INTEGER
             THEN readFields([sd EXCEPT !.offset = readInt(value.content)], field.rest)
             ELSE DecodeError

\* decodeStreamDescription
decodeStreamDescription(bytes) ==
    LET seq == readElement(bytes)
    IN  IF ~seq.ok \/ seq.tag # StreamDescriptionTag \/ seq.rest # <<>> THEN DecodeError
        ELSE readFields([format |-> 0, offset |-> 0], seq.content)

\* A StreamDescription is written, then read back.
InitCodec ==
    /\ pend = <<>>
    /\ act = 0
    /\ tmr = "none"
    /\ cb = NoCallback
    /\ rid = 0
    /\ tree = <<>>
    /\ conn = "closed"
    /\ reqs = <<>>
    /\ waiter = <<>>
    /\ connP = <<>>
    /\ written = <<>>
    /\ emitted = <<>>
    /\ last = Step("constructor", 0)
    /\ nIn = 0
    /\ nFault = 0
    /\ nInv = 0
    /\ nEnc = 0
    /\ walk = NoWalk
    /\ \E format \in StreamFormat, offset \in Offsets :
          codec = [NoCodec EXCEPT !.phase = "plain", !.sd = [format |-> format, offset |-> offset]]

Encode ==
    /\ codec.phase = "plain"
    /\ Assigned([Client EXCEPT !.written = written, !.emitted = emitted,
                                !.codec.phase = "encoded",
                                !.codec.bytes = encodeStreamDescription(codec.sd)])
    /\ UNCHANGED <<conn, last, nIn, nFault, nInv, nEnc>>

Decode ==
    /\ codec.phase = "encoded"
    /\ Assigned([Client EXCEPT !.written = written, !.emitted = emitted,
                                !.codec.phase = "decoded",
                                !.codec.decoded = decodeStreamDescription(codec.bytes)])
    /\ UNCHANGED <<conn, last, nIn, nFault, nInv, nEnc>>

NextCodec ==
    \/ Encode
    \/ Decode

Codec == InitCodec /\ [][NextCodec]_vars

\* ------------------------------------------------------------------ C21
\* C21: a StreamDescription that was encoded and then decoded is the one
\* that was encoded, field by field: the same format and the same offset.
C21_StreamDescriptionRoundTrip ==
    codec.phase = "decoded" =>
       /\ codec.decoded.format = codec.sd.format
       /\ codec.decoded.offset = codec.sd.offset
       /\ DOMAIN codec.decoded = {"format", "offset"}

\* {format: Int32BE, offset: 42} went through: the bytes start with the
\* application tag and hold enumerated 4 under context 0 and integer 42
\* under context 1
C21_Witness ==
    /\ codec.phase = "decoded"
    /\ codec.sd = [format |-> 4, offset |-> 42]
    /\ codec.decoded = codec.sd
    /\ codec.bytes = <<StreamDescriptionTag, 10,
                       CONTEXT(0), 3, UNIVERSAL_ENUMERATED, 1, 4,
                       CONTEXT(1), 3, UNIVERSAL_INTEGER, 1, 42>>

\* ------------------------------------------------------------------ C22
\* the promise of request r is resolved in the step with decoded message m
resolvedBy(r, m) == resolvedNow(r) /\ waiter'[r].m = m

\* C22: an inbound root completes at most one request.  When it resolves the
\* promise of the active request a while request b is queued, b's promise is
\* not resolved with the same root.  Stated for the runs in which every
\* frame could be encoded.
C22_OneRootOneRequest ==
    [][\A m \in MsgIds, a \in Ids, b \in Ids :
          (/\ everyFrameEncoded
           /\ last'.op = "emberTree" /\ last'.m = m
           /\ act = a
           /\ b \in queued(pend)
           /\ resolvedBy(a, m))
          => ~resolvedBy(b, m)
      ]_vars

\* ------------------------------------------------------------------ C23
\* C23: after every call of the facade, inbound message and timeout, a
\* non-empty queue of pending requests goes with an active request: the
\* pipeline is never idle with requests waiting.
C23_NoStalledQueue ==
    (last.op \in {"addRequest", "emberTree", "timeout"} /\ pend # <<>>) => act # 0

\* a timeout ended the active request while two were queued; the first of
\* them is active now and the other still waits
C23_Witness ==
    /\ last.op = "timeout"
    /\ act = 2
    /\ pend = <<3>>
    /\ waiter[1].st = "rejected"

\* ------------------------------------------------------------------ C24
\* C24: an armed timer is the timer of the active request.  In every state
\* with an armed timer a request is active; when the active request after a
\* step is not the one before it and a timer is armed, the timer was armed
\* in that step by the _makeRequest that made the request active (which
\* counts _requestID up); and the promise a timeout rejects with a timeout
\* error is that of the request that was active, with its own error.
C24_TimerOfActiveRequest ==
    [][/\ tmr' = "armed" => act' # 0
       /\ (tmr' = "armed" /\ act' # act) => rid' > rid
       /\ \A r \in Ids :
             (waiter[r].st = "pending" /\ waiter'[r].st = "rejected" /\ waiter'[r].e.k = "timeout") =>
                (last'.op = "timeout" /\ tmr = "armed" /\ r = act /\ waiter'[r].e = EmberTimeoutError(r))
      ]_vars

\* a timeout rejected the first request and the timer now runs for the
\* second, which was queued behind it
C24_Witness ==
    /\ last.op = "timeout"
    /\ tmr = "armed"
    /\ act = 2
    /\ rid = 2
    /\ waiter[1] = Rejected(EmberTimeoutError(1))
    /\ waiter[2].st = "pending"

\* ------------------------------------------------------------------ C25
\* the client with the callback of request r in the callback slot, as r's
\* func left it
withOwnCallback(s, r) == [s EXCEPT !.cb = Callback(s.reqs[r].kind, r)]

\* C25: a connect() made while a request is active does not disturb the
\* request.  A message that would resolve the promise of the active request
\* r if r's callback were still in the callback slot resolves it, when it
\* arrives before r's timer runs; and the 'connected' and 'error' events of
\* the transport settle the promise of no request while the callback of
\* connect() is in the slot.  Stated for the runs in which every frame could
\* be encoded.
C25_ConnectLeavesRequest ==
    [][\A r \in Ids :
          (everyFrameEncoded /\ act = r /\ waiter[r].st = "pending" /\ connP # <<>>) =>
             /\ \A m \in MsgIds :
                   (/\ last'.op = "emberTree" /\ last'.m = m
                    /\ tmr = "armed"
                    /\ reqs[r].kind \in {"getDirectory", "setValue", "matrixOPeration", "invokeFunction"}
                    /\ onEmberTree(withOwnCallback(Client, r), m).waiter[r].st = "resolved")
                   => waiter'[r].st = "resolved"
             /\ (last'.op \in {"connected", "error"} /\ cb.k = "connect") => waiter'[r].st = "pending"
      ]_vars

====
